---- MODULE Spec2Model ----
(***************************************************************************)
(* A model of juicy.py, the installer of a juicity-server systemd service. *)
(*                                                                         *)
(* The host (files, systemd units, processes, sockets) is the persistent   *)
(* state.  One invocation of the script is a run: `cmd` is the sub-command *)
(* and `pc` the statement of Scaffold.install / remove / check /           *)
(* service_relay the process has reached.  Every external command the      *)
(* script issues and every file it writes is appended to `trace`, which is *)
(* emptied when the next invocation starts.                                *)
(***************************************************************************)
EXTENDS Integers, Sequences, FiniteSets, TLC

VARIABLES
    \* ---- host state that outlives an invocation
    certExists,         \* /etc/letsencrypt/live/<domain>/fullchain.pem exists
    certbotInstalled,   \* the certbot executable is on PATH
    occupant80,         \* what listens on TCP port 80: "none", "nginx", "other"
    nginxInstalled,     \* systemd knows an nginx unit
    wsExists,           \* /home/juicity exists
    aliasSet,           \* ~/.bashrc holds the juicy alias
    unitFile,           \* /etc/systemd/system/juicity.service exists
    exeExists,          \* /home/juicity/juicity-server exists
    serverJson,         \* {} or {the ServerConfig stored in server.json}
    clientJson,         \* {} or {the NekoRayConfig stored in nekoray_config.json}
    svcActive,          \* systemd reports the juicity unit active
    svcCfg,             \* the content of server.json the running unit loaded
    freePorts,          \* the sampled UDP ports nobody else has bound
    \* ---- the running invocation
    cmd,                \* args.command
    pc,                 \* the statement reached
    exitKind,           \* how the process ended
    _should_revive_port_80,
    _is_success,
    _server_port,
    user,               \* User.gen()
    statusText,         \* what `systemctl is-active juicity` printed
    attempts,           \* failed downloads of this run
    flags,              \* {} or {the format flags Template.parse was given}
    trace,              \* the commands issued and files written by this run
    \* ---- what this run observed (history)
    domainResult,       \* the outcome of _validate_domain
    certStage,          \* how far CertBot.run got: "none", "pre", "requested", "post"
    certAtStart,        \* certExists when the invocation started
    stopped80,          \* the occupant of port 80 the pre-hook stopped
    acmeOutput,         \* what certbot certonly wrote to stderr
    exhausted,          \* an allocation found every candidate port bound
    returned,           \* the values Project.server_port returned
    probed,             \* the ports whose probe bind succeeded
    \* ---- one call of a function of the configuration classes
    input,              \* the value the function is applied to
    result              \* "none" or what the function returned

certVars == <<certExists, certbotInstalled>>
webVars  == <<occupant80, nginxInstalled>>
wsVars   == <<wsExists, exeExists, serverJson, clientJson>>
sysVars  == <<unitFile, svcActive, svcCfg>>
hostVars == <<certVars, webVars, wsVars, sysVars, aliasSet, freePorts>>
certBotVars == <<_should_revive_port_80, _is_success>>
portVars == <<_server_port, exhausted, returned, probed>>
certHist == <<domainResult, certStage, certAtStart, stopped80, acmeOutput>>
fnVars   == <<input, result>>
runVars  == <<cmd, flags, fnVars, exitKind, certBotVars, portVars, certHist, user,
              statusText, attempts>>
vars == <<hostVars, runVars, pc, trace>>

(***************************************************************************)
(* Bounds of the model.                                                    *)
(***************************************************************************)
\* the number of failed downloads followed in one run (the code recurses
\* without a limit)
MaxDownload == 2

(***************************************************************************)
(* Program constants.                                                      *)
(***************************************************************************)
PortLo == 41670
PortHi == 46990

\* The UDP ports whose state the host varies: the first and the last
\* candidate.  Every other candidate is taken to be bound by some other
\* program.
SamplePorts == {41670, 46989}

Commands == {"install", "remove", "check", "status", "log", "start", "stop", "restart"}
Params == [nekoray : BOOLEAN, clash : BOOLEAN, v2ray : BOOLEAN, singbox : BOOLEAN]

(***************************************************************************)
(* Project                                                                 *)
(***************************************************************************)
\* range(41670, 46990), whatever order random.shuffle leaves it in
rand_ports == PortLo .. (PortHi - 1)

\* the UDP port a running juicity-server has bound (its "listen")
ServicePorts == {c.listen[2] : c \in svcCfg}

\* Project.is_port_in_used(p, "udp"): the probe bind on 127.0.0.1 fails
is_port_in_used(p) == p \notin freePorts \/ p \in ServicePorts

\* Project.is_port_in_used(80, "tcp")
is_port_80_in_used == occupant80 # "none"

\* `if not self.is_port_in_used(p, proto="udp")`
ProbeAccepts(p) == ~is_port_in_used(p)

\* the candidates the loop of server_port can stop at
FreeCandidates == {p \in rand_ports : ProbeAccepts(p)}

\* the mutation that drops the cache: every evaluation shuffles and probes
server_port_uncached ==
    IF FreeCandidates = {} THEN {-1} ELSE FreeCandidates

\* Project.server_port: the values the property can return.  A cached port
\* is returned as it is; otherwise the first candidate (in shuffled order)
\* whose probe succeeds, and the unchanged -1 when none does.
server_port ==
    IF _server_port < 0
    THEN IF FreeCandidates = {} THEN {-1} ELSE FreeCandidates
    ELSE {_server_port}

(***************************************************************************)
(* Configuration records                                                   *)
(***************************************************************************)
\* the identities of users.  Only the equality of two stored identities is
\* ever observed, and at most three are stored at a time (server.json, the
\* client configuration, the configuration the running service loaded).
UserIds == 1 .. 4

\* the user of a process that has not generated one
NoUser == [username |-> 0, password |-> 0]

\* the identities some stored configuration holds
StoredUsers ==
    UNION {DOMAIN c.users : c \in serverJson \cup svcCfg}
        \cup {c.uuid : c \in clientJson}

\* User.gen(): uuid4() and secrets.token_hex() give a pair no earlier call
\* gave; the pair is named by the first identity that is not stored
UserGen ==
    LET u == CHOOSE x \in UserIds \ StoredUsers :
                 \A y \in UserIds \ StoredUsers : x <= y
    IN [username |-> u, password |-> u]

\* ServerConfig.__post_init__: an int becomes ":<port>"
Listen(port) == <<":", port>>

\* ServerConfig.from_automation(user, fullchain, privkey, server_port)
ServerConfig_from_automation(u, port) ==
    [listen |-> Listen(port),
     certificate |-> "fullchain.pem",
     private_key |-> "privkey.pem",
     users |-> [n \in {u.username} |-> u.password],
     congestion_control |-> "bbr",
     log_level |-> "info"]

\* NekoRayConfig.from_server(user, server_config, domain, port, ip)
NekoRayConfig_from_server(u, server_config, port) ==
    [server |-> <<"server_ip", port>>,
     listen |-> "127.0.0.1:%socks_port%",
     uuid |-> u.username,
     password |-> u.password,
     sni |-> "domain",
     allow_insecure |-> FALSE,
     congestion_control |-> server_config.congestion_control,
     log_level |-> "info"]

(***************************************************************************)
(* Control                                                                 *)
(***************************************************************************)
Log(events) == trace' = trace \o events

Goto(label) == pc' = label /\ exitKind' = exitKind

\* the process ends: "sys.exit", "crash" (uncaught exception), "execl"
\* (replaced by a login shell), "return", "interrupt"
Exit(kind) == pc' = "exited" /\ exitKind' = kind

\* the exit statuses the operating system can report for the process: an
\* uncaught exception gives 1; sys.exit() without an argument, a return
\* from run() and the suppressed KeyboardInterrupt give 0; after os.execl
\* the status is the login shell's
ExitStatuses(kind) ==
    CASE kind = "crash" -> {1}
      [] kind = "execl" -> {0, 1}
      [] OTHER -> {0}

\* A host the script has not run on: nothing of juicity is installed.  What
\* the script finds there varies: certbot may be installed, port 80 may be
\* held by nginx or by another server, and any of the sampled UDP ports may
\* be bound.
FreshHost ==
    /\ certExists = FALSE
    /\ certbotInstalled \in BOOLEAN
    /\ occupant80 \in {"none", "nginx", "other"}
    /\ nginxInstalled = (occupant80 = "nginx")
    /\ wsExists = FALSE
    /\ aliasSet = FALSE
    /\ unitFile = FALSE
    /\ exeExists = FALSE
    /\ serverJson = {}
    /\ clientJson = {}
    /\ svcActive = FALSE
    /\ svcCfg = {}
    /\ freePorts \in SUBSET SamplePorts
    /\ cmd = "none"
    /\ pc = "idle"
    /\ exitKind = "none"
    /\ _should_revive_port_80 = FALSE
    /\ _is_success = TRUE
    /\ _server_port = -1
    /\ user = NoUser
    /\ statusText = "none"
    /\ flags = {}
    /\ attempts = 0
    /\ trace = <<>>
    /\ domainResult = "none"
    /\ certStage = "none"
    /\ certAtStart = FALSE
    /\ stopped80 = "none"
    /\ acmeOutput = "none"
    /\ exhausted = FALSE
    /\ returned = {}
    /\ probed = {}

\* no function of the configuration classes is being followed
NoValue == <<"none">>

Init ==
    /\ FreshHost
    /\ input = NoValue
    /\ result = NoValue

\* run(): the parser dispatches on args.command in a fresh process (class
\* attributes and CertBot.__init__ give the fields their initial values)
Invoke(c) ==
    /\ pc = "idle"
    /\ cmd' = c
    /\ pc' = IF c \in {"install", "remove"} THEN "validate" ELSE "project"
    /\ exitKind' = "none"
    /\ certAtStart' = certExists
    /\ trace' = <<>>
    /\ UNCHANGED <<hostVars, flags, fnVars, certBotVars, portVars, user,
                   statusText, attempts, domainResult, certStage, stopped80,
                   acmeOutput>>

(***************************************************************************)
(* Scaffold._validate_domain                                               *)
(***************************************************************************)
\* what the lookups can give: the domain resolves to this host's public IP,
\* getaddrinfo raises gaierror, or my_ip != server_ip
DomainResults == {"ok", "unresolvable", "mismatch"}

\* the mutation that drops the comparison of my_ip with server_ip
DomainOK_any_resolved(r) == r # "unresolvable"

\* `return domain, server_ip` is reached
DomainOK(r) == r = "ok"

ValidateDomain ==
    /\ pc = "validate"
    /\ \E r \in DomainResults :
        /\ domainResult' = r
        /\ IF DomainOK(r)
           THEN Goto(IF cmd = "install" THEN "cert_check" ELSE "project")
           ELSE Exit("sys.exit")
    /\ UNCHANGED <<hostVars, cmd, flags, fnVars, certBotVars, portVars, certStage, certAtStart,
                   stopped80, acmeOutput, user, statusText, attempts, trace>>

(***************************************************************************)
(* CertBot                                                                 *)
(***************************************************************************)
\* the mutation that requests a certificate on every install
NeedCert_always == TRUE

\* `if not Path(cert.fullchain).exists()`
NeedCert == ~certExists

\* Scaffold.install, the branch around CertBot(domain).run()
CertCheck ==
    /\ pc = "cert_check"
    /\ Goto(IF NeedCert THEN "pre_hook" ELSE "project")
    /\ UNCHANGED <<hostVars, runVars, trace>>

\* CertBot._cert_pre_hook: stale <domain>-NNNN directories are removed, apt
\* installs certbot (its failure is ignored), and whatever holds port 80 is
\* stopped and killed
CertPreHook ==
    /\ pc = "pre_hook"
    /\ certbotInstalled' \in {TRUE, certbotInstalled}
    /\ IF is_port_80_in_used
       THEN /\ occupant80' = "none"
            /\ _should_revive_port_80' = TRUE
            /\ stopped80' = occupant80
            /\ Log(<<"rm_stale_cert_dirs", "apt_update", "apt_install_certbot",
                     "stop_nginx", "kill_port_80">>)
       ELSE /\ Log(<<"rm_stale_cert_dirs", "apt_update", "apt_install_certbot">>)
            /\ UNCHANGED <<occupant80, _should_revive_port_80, stopped80>>
    /\ certStage' = "pre"
    /\ Goto("cert_run")
    /\ UNCHANGED <<certExists, nginxInstalled, wsVars, sysVars,
                   aliasSet, freePorts, cmd, flags, fnVars, _is_success, portVars, domainResult,
                   certAtStart, acmeOutput, user, statusText, attempts>>

\* what certbot certonly can write to stderr: nothing of interest (the
\* certificate is issued), the rate limit message, any other failure
AcmeOutputs == {"issued", "too many certificates: retry after 168 hours", "error"}

\* the mutation that takes every failure for the rate limit
QuotaPhrase_any_failure(output) == output # "issued"

\* `output and "168 hours" in output`
QuotaPhrase(output) == output = "too many certificates: retry after 168 hours"

\* CertBot._run: Popen raises FileNotFoundError when there is no certbot
CertRun ==
    /\ pc = "cert_run"
    /\ IF ~certbotInstalled
       THEN /\ Exit("crash")
            /\ UNCHANGED <<certExists, _is_success, acmeOutput, certStage, trace>>
       ELSE \E output \in AcmeOutputs :
            /\ acmeOutput' = output
            /\ certStage' = "requested"
            /\ certExists' = (certExists \/ output = "issued")
            /\ _is_success' = IF QuotaPhrase(output) THEN FALSE ELSE _is_success
            /\ Log(<<"certbot_certonly">>)
            /\ Goto("post_hook")
    /\ UNCHANGED <<certbotInstalled, webVars, wsVars, sysVars,
                   aliasSet, freePorts, cmd, flags, fnVars, _should_revive_port_80, portVars,
                   domainResult, certAtStart, stopped80, user, statusText, attempts>>

\* `systemctl restart nginx`: it starts nginx where there is an nginx unit
RestartNginx == IF nginxInstalled THEN "nginx" ELSE occupant80

\* the mutation that lets a rate-limited request continue
PostHookAborts_never == FALSE

\* `if not self._is_success: sys.exit()`
PostHookAborts == ~_is_success

\* CertBot._cert_post_hook
CertPostHook ==
    /\ pc = "post_hook"
    /\ certStage' = "post"
    /\ _should_revive_port_80' = FALSE
    /\ occupant80' = IF _should_revive_port_80 THEN RestartNginx ELSE occupant80
    /\ IF PostHookAborts
       THEN /\ Log(IF _should_revive_port_80 THEN <<"restart_nginx">> ELSE <<>>)
            /\ Exit("sys.exit")
       ELSE /\ Log((IF _should_revive_port_80 THEN <<"restart_nginx">> ELSE <<>>)
                   \o <<"daemon_reload", "enable_certbot_timer">>)
            /\ Goto("project")
    /\ UNCHANGED <<certExists, certbotInstalled, nginxInstalled, wsVars, sysVars,
                   aliasSet, freePorts, cmd, flags, fnVars, _is_success, portVars, domainResult,
                   certAtStart, stopped80, acmeOutput, user, statusText, attempts>>

(***************************************************************************)
(* Project(), the alias, the user and the port                             *)
(***************************************************************************)
\* the mutation that drops exist_ok=True: FileExistsError on a directory
\* that is there
MakedirsRaises_without_exist_ok == wsExists

\* os.makedirs(self.workstation, exist_ok=True) raises for no state of the
\* directory
MakedirsRaises == FALSE

\* Project.__post_init__: os.makedirs(workstation, exist_ok=True), run by
\* install, remove, check and service_relay alike
ProjectInit ==
    /\ pc = "project"
    /\ IF MakedirsRaises
       THEN /\ Exit("crash")
            /\ UNCHANGED <<wsExists, trace>>
       ELSE /\ wsExists' = TRUE
            /\ Log(IF wsExists THEN <<>> ELSE <<"makedirs_workstation">>)
            /\ Goto(CASE cmd = "install" -> "set_alias"
                      [] cmd = "remove" -> "remove_alias"
                      [] cmd = "check" -> "parse"
                      [] OTHER -> "relay")
    /\ UNCHANGED <<certVars, webVars, exeExists, serverJson, clientJson, sysVars,
                   aliasSet, freePorts, cmd, flags, fnVars, certBotVars, portVars, certHist,
                   user, statusText, attempts>>

\* Project.set_alias: appended to ~/.bashrc unless it is there
SetAlias ==
    /\ pc = "set_alias"
    /\ aliasSet' = TRUE
    /\ Log(IF aliasSet THEN <<>> ELSE <<"append_alias">>)
    /\ Goto("gen_user")
    /\ UNCHANGED <<certVars, webVars, wsVars, sysVars, freePorts, runVars>>

\* one evaluation of the property Project.server_port returning p
Allocate(p) ==
    /\ p \in server_port
    /\ _server_port' = p
    /\ returned' = returned \cup {p}
    /\ probed' = IF _server_port < 0
                 THEN probed \cup {q \in {p} : ~is_port_in_used(q)}
                 ELSE probed
    /\ exhausted' = (exhausted \/ (_server_port < 0
                                     /\ \A q \in rand_ports : is_port_in_used(q)))

\* Scaffold.install: user = User.gen(); server_port = project.server_port
GenUserPort ==
    /\ pc = "gen_user"
    /\ user' = UserGen
    /\ \E p \in server_port : Allocate(p)
    /\ Goto("build_service")
    /\ UNCHANGED <<hostVars, cmd, flags, fnVars, certBotVars, certHist, statusText, attempts, trace>>

(***************************************************************************)
(* Service                                                                 *)
(***************************************************************************)
\* Service.build_from_template with the rendered template: the unit file is
\* written and systemd reloads
BuildService ==
    /\ pc = "build_service"
    /\ unitFile' = TRUE
    /\ Log(<<"write_unit", "daemon_reload">>)
    /\ Goto("download")
    /\ UNCHANGED <<certVars, webVars, wsVars, svcActive, svcCfg, aliasSet,
                   freePorts, runVars>>

\* Service.download_server: on OSError the service is stopped and the
\* method calls itself
DownloadServer ==
    /\ pc = "download"
    /\ \/ /\ exeExists' = TRUE
          /\ Log(<<"download", "extract", "chmod">>)
          /\ Goto("server_config")
          /\ UNCHANGED <<svcActive, svcCfg, attempts>>
       \/ /\ attempts < MaxDownload
          /\ attempts' = attempts + 1
          /\ svcActive' = FALSE
          /\ svcCfg' = {}
          /\ Log(<<"download_failed", "systemctl_stop">>)
          /\ Goto("download")
          /\ UNCHANGED exeExists
    /\ UNCHANGED <<certVars, webVars, wsExists, serverJson, clientJson, unitFile,
                   aliasSet, freePorts, cmd, flags, fnVars, certBotVars, portVars,
                   certHist, user, statusText>>

\* ServerConfig.from_automation(...).to_json(project.server_config)
WriteServerConfig ==
    /\ pc = "server_config"
    /\ serverJson' = {ServerConfig_from_automation(user, _server_port)}
    /\ Log(<<"write_server_json">>)
    /\ Goto("start")
    /\ UNCHANGED <<certVars, webVars, wsExists, exeExists, clientJson, sysVars,
                   aliasSet, freePorts, runVars>>

\* the unit can run: its file, the executable and the configuration exist
CanStart == unitFile /\ exeExists /\ serverJson # {}

\* `systemctl enable --now juicity`: <<active, configuration loaded>>.  A
\* unit that is active already is left as it runs.
EnableNow ==
    IF svcActive THEN {<<TRUE, svcCfg>>}
    ELSE IF CanStart THEN {<<TRUE, serverJson>>, <<FALSE, {}>>}
    ELSE {<<FALSE, {}>>}

\* `systemctl daemon-reload && systemctl restart juicity`
RestartUnit ==
    IF CanStart THEN {<<TRUE, serverJson>>, <<FALSE, {}>>} ELSE {<<FALSE, {}>>}

\* Service.start, called by install
ServiceStart ==
    /\ pc = "start"
    /\ \E r \in EnableNow : svcActive' = r[1] /\ svcCfg' = r[2]
    /\ Log(<<"systemctl_enable_now">>)
    /\ Goto("status")
    /\ UNCHANGED <<certVars, webVars, wsVars, unitFile, aliasSet,
                   freePorts, runVars>>

\* what `systemctl is-active juicity` prints
IsActiveTexts == IF svcActive THEN {"active"} ELSE {"inactive", "failed"}

\* the mutation that takes every text but "inactive" for success
StatusResponse_not_inactive(text) == text # "inactive"

\* Service.status: response is True only for the text "active"
StatusResponse(text) == text = "active"

\* Scaffold.install: (response, text) = service.status() and the branch on
\* `response is True`
ServiceStatus ==
    /\ pc = "status"
    /\ \E text \in IsActiveTexts :
        /\ statusText' = text
        /\ IF StatusResponse(text)
           THEN /\ Log(<<"systemctl_is_active">>)
                /\ Goto("gen_clients")
           ELSE /\ Log(<<"systemctl_is_active", "log_start_failed">>)
                /\ Exit("return")
    /\ UNCHANGED <<hostVars, cmd, flags, fnVars, certBotVars, portVars, certHist, user, attempts>>

(***************************************************************************)
(* Template                                                                *)
(***************************************************************************)
\* Template.gen_clients: project.server_port is evaluated again
GenClients ==
    /\ pc = "gen_clients"
    /\ \E p \in server_port :
        /\ Allocate(p)
        /\ \E sc \in serverJson :
              clientJson' = {NekoRayConfig_from_server(user, sc, p)}
    /\ Log(<<"write_client_json">>)
    /\ Goto("parse")
    /\ UNCHANGED <<certVars, webVars, wsExists, exeExists, serverJson, sysVars,
                   aliasSet, freePorts, cmd, flags, fnVars, certBotVars, certHist, user,
                   statusText, attempts>>

\* Template.print_nekoray
print_nekoray ==
    IF clientJson = {} THEN <<"log_no_client_config">>
    ELSE <<"print_sharelink", "print_nekoray_config">>

\* Template.parse: show_all = not any([params.nekoray])
parse(params) ==
    IF ~params.nekoray THEN print_nekoray
    ELSE IF params.nekoray THEN print_nekoray
    ELSE IF params.clash \/ params.singbox \/ params.v2ray
         THEN <<"warn_unimplemented">>
    ELSE <<>>

\* t.parse(params), at the end of install and as the whole of check.  The
\* flags are read here and nowhere else, so they are drawn here.
Parse ==
    /\ pc = "parse"
    /\ \E params \in Params :
          /\ flags' = {params}
          /\ Log(parse(params))
    /\ IF cmd = "install" THEN Goto("reset_shell") ELSE Exit("return")
    /\ UNCHANGED <<hostVars, cmd, fnVars, certBotVars, portVars, certHist, user,
                   statusText, attempts>>

\* Project.reset_shell: os.execl replaces the process by a login shell
ResetShell ==
    /\ pc = "reset_shell"
    /\ Log(<<"execl_shell">>)
    /\ Exit("execl")
    /\ UNCHANGED <<hostVars, cmd, flags, fnVars, certBotVars, portVars, certHist, user,
                   statusText, attempts>>

(***************************************************************************)
(* Scaffold.remove                                                         *)
(***************************************************************************)
\* Project.remove_alias
RemoveAlias ==
    /\ pc = "remove_alias"
    /\ aliasSet' = FALSE
    /\ Log(IF aliasSet THEN <<"remove_alias">> ELSE <<>>)
    /\ Goto("cert_remove")
    /\ UNCHANGED <<certVars, webVars, wsVars, sysVars, freePorts, runVars>>

\* CertBot.remove: Popen raises FileNotFoundError when there is no certbot;
\* otherwise certbot delete is answered "y" and the directory of the
\* certificate is removed
CertRemove ==
    /\ pc = "cert_remove"
    /\ IF ~certbotInstalled
       THEN /\ Exit("crash")
            /\ UNCHANGED <<certExists, trace>>
       ELSE /\ certExists' = FALSE
            /\ Log(<<"certbot_delete", "rmtree_cert">>)
            /\ Goto("service_remove")
    /\ UNCHANGED <<certbotInstalled, webVars, wsVars, sysVars,
                   aliasSet, freePorts, cmd, flags, fnVars, certBotVars, portVars, certHist,
                   user, statusText, attempts>>

\* the mutation that deletes the workstation before the service is stopped
ServiceRemoveOrder_rmtree_first ==
    <<"rmtree_workstation", "systemctl_disable_now", "pkill", "rm_unit">>

\* Service.remove: the order of its four steps
ServiceRemoveOrder ==
    <<"systemctl_disable_now", "pkill", "rm_unit", "rmtree_workstation">>

\* the mutation that leaves the unit file in place
UnitFileAfterRemove_kept == unitFile

\* `if self.path.exists(): os.remove(self.path)`
UnitFileAfterRemove == FALSE

\* Service.build_from_template without a template, then Service.remove:
\* disable --now stops the unit, pkill ends every juicity-server process,
\* the unit file and the workstation tree are deleted (shutil.rmtree raises
\* when the directory is missing)
ServiceRemove ==
    /\ pc = "service_remove"
    /\ svcActive' = FALSE
    /\ svcCfg' = {}
    /\ unitFile' = UnitFileAfterRemove
    /\ IF wsExists
       THEN /\ wsExists' = FALSE
            /\ exeExists' = FALSE
            /\ serverJson' = {}
            /\ clientJson' = {}
            /\ Log(SelectSeq(ServiceRemoveOrder,
                             LAMBDA e : e # "rm_unit" \/ unitFile))
            /\ Goto("reset_shell")
       ELSE /\ Log(SelectSeq(ServiceRemoveOrder,
                             LAMBDA e : e \in {"systemctl_disable_now", "pkill"}
                                        \/ (e = "rm_unit" /\ unitFile)))
            /\ Exit("crash")
            /\ UNCHANGED wsVars
    /\ UNCHANGED <<certVars, webVars, aliasSet, freePorts, cmd, flags, fnVars, certBotVars,
                   portVars, certHist, user, statusText, attempts>>

(***************************************************************************)
(* Scaffold.service_relay                                                  *)
(***************************************************************************)
\* status runs `<executable> -v` (Popen raises when the file is missing);
\* start, stop and restart are passed to systemd; log follows the journal
\* (journalctl -f) and returns only when the operator interrupts it
Relay ==
    /\ pc = "relay"
    /\ cmd # "log"
    /\ CASE cmd = "status" ->
              /\ IF exeExists
                 THEN Log(<<"systemctl_is_active", "executable_version",
                            "timer_is_active">>) /\ Exit("return")
                 ELSE Log(<<"systemctl_is_active">>) /\ Exit("crash")
              /\ UNCHANGED <<svcActive, svcCfg>>
         [] cmd = "start" ->
              /\ \E r \in EnableNow : svcActive' = r[1] /\ svcCfg' = r[2]
              /\ Log(<<"systemctl_enable_now">>)
              /\ Exit("return")
         [] cmd = "stop" ->
              /\ svcActive' = FALSE
              /\ svcCfg' = {}
              /\ Log(<<"systemctl_stop">>)
              /\ Exit("return")
         [] OTHER ->
              /\ \E r \in RestartUnit : svcActive' = r[1] /\ svcCfg' = r[2]
              /\ Log(<<"daemon_reload", "systemctl_restart">>)
              /\ Exit("return")
    /\ UNCHANGED <<certVars, webVars, wsVars, unitFile, aliasSet,
                   freePorts, cmd, flags, fnVars, certBotVars, portVars, certHist, user,
                   statusText, attempts>>

(***************************************************************************)
(* The end of a process                                                    *)
(***************************************************************************)
\* the process is gone: nothing of it is left but the host state
Finish ==
    /\ pc = "exited"
    /\ pc' = "idle"
    /\ cmd' = "none"
    /\ exitKind' = "none"
    /\ _should_revive_port_80' = FALSE
    /\ _is_success' = TRUE
    /\ _server_port' = -1
    /\ user' = NoUser
    /\ statusText' = "none"
    /\ flags' = {}
    /\ attempts' = 0
    /\ trace' = <<>>
    /\ domainResult' = "none"
    /\ certStage' = "none"
    /\ certAtStart' = FALSE
    /\ stopped80' = "none"
    /\ acmeOutput' = "none"
    /\ exhausted' = FALSE
    /\ returned' = {}
    /\ probed' = {}
    /\ UNCHANGED <<hostVars, fnVars>>

\* with suppress(KeyboardInterrupt): the operator interrupts the workflow
\* between two statements and the process exits silently
Interrupt ==
    /\ pc \notin {"idle", "exited"}
    /\ Exit("interrupt")
    /\ UNCHANGED <<hostVars, cmd, flags, fnVars, certBotVars, portVars, certHist, user,
                   statusText, attempts, trace>>

Next ==
    \/ \E c \in Commands : Invoke(c)
    \/ ValidateDomain
    \/ CertCheck
    \/ CertPreHook
    \/ CertRun
    \/ CertPostHook
    \/ ProjectInit
    \/ SetAlias
    \/ GenUserPort
    \/ BuildService
    \/ DownloadServer
    \/ WriteServerConfig
    \/ ServiceStart
    \/ ServiceStatus
    \/ GenClients
    \/ Parse
    \/ ResetShell
    \/ RemoveAlias
    \/ CertRemove
    \/ ServiceRemove
    \/ Relay
    \/ Interrupt
    \/ Finish

Spec == Init /\ [][Next]_vars

(***************************************************************************)
(* Python values and JSON                                                  *)
(*                                                                         *)
(* A Python value is a tagged tuple: <<"NoneType">>, <<"bool", b>>,        *)
(* <<"int", n>>, <<"str", s>>, <<"dict", f>>.  A str is a sequence of      *)
(* symbols; a symbol is one character, or a run of characters that the     *)
(* code never looks into.  A JSON text is given by its syntax tree:        *)
(* <<"null">>, <<"true">>, <<"false">>, <<"number", n>>, <<"string", s>>,  *)
(* <<"object", f>>, where s is the sequence of symbols between the quotes  *)
(* as they stand in the text (escaped).                                    *)
(***************************************************************************)
PyNone == <<"NoneType">>
PyBool(b) == <<"bool", b>>
PyInt(n) == <<"int", n>>
PyStr(s) == <<"str", s>>
PyDict(f) == <<"dict", f>>

\* bool(v), as `if v:` and `v or w` take it
Truthy(v) ==
    CASE v[1] = "NoneType" -> FALSE
      [] v[1] = "bool" -> v[2]
      [] v[1] = "int" -> v[2] # 0
      [] v[1] = "str" -> Len(v[2]) > 0
      [] v[1] = "dict" -> DOMAIN v[2] # {}

DecimalDigits == <<"0", "1", "2", "3", "4", "5", "6", "7", "8", "9">>

RECURSIVE Digits(_)
Digits(n) ==
    IF n < 10 THEN <<DecimalDigits[n + 1]>>
    ELSE Digits(n \div 10) \o <<DecimalDigits[(n % 10) + 1]>>

\* str(n) of an int
Str(n) == IF n < 0 THEN <<"-">> \o Digits(-n) ELSE Digits(n)

\* json.dumps(..., ensure_ascii=True) of one symbol of a str: the quote and
\* the backslash get a backslash, a non-ASCII character (the symbol
\* "U+00E9") becomes \uXXXX
Escape(c) ==
    CASE c = "\"" -> "\\\""
      [] c = "\\" -> "\\\\"
      [] c = "U+00E9" -> "\\u00e9"
      [] OTHER -> c

\* json.loads of one symbol of a string
Unescape(c) ==
    CASE c = "\\\"" -> "\""
      [] c = "\\\\" -> "\\"
      [] c = "\\u00e9" -> "U+00E9"
      [] OTHER -> c

\* json.dumps(v)
RECURSIVE json_dumps(_)
json_dumps(v) ==
    CASE v[1] = "NoneType" -> <<"null">>
      [] v[1] = "bool" -> IF v[2] THEN <<"true">> ELSE <<"false">>
      [] v[1] = "int" -> <<"number", v[2]>>
      [] v[1] = "str" -> <<"string", [i \in DOMAIN v[2] |-> Escape(v[2][i])]>>
      [] v[1] = "dict" -> <<"object", [k \in DOMAIN v[2] |-> json_dumps(v[2][k])]>>

\* json.loads(j)
RECURSIVE json_loads(_)
json_loads(j) ==
    CASE j[1] = "null" -> PyNone
      [] j[1] = "true" -> PyBool(TRUE)
      [] j[1] = "false" -> PyBool(FALSE)
      [] j[1] = "number" -> PyInt(j[2])
      [] j[1] = "string" -> PyStr([i \in DOMAIN j[2] |-> Unescape(j[2][i])])
      [] j[1] = "object" -> PyDict([k \in DOMAIN j[2] |-> json_loads(j[2][k])])

(***************************************************************************)
(* The dataclasses ServerConfig and NekoRayConfig, field by field.  An     *)
(* object is <<class, __dict__>>.                                          *)
(***************************************************************************)
\* inspect.Parameter.empty: the parameter has no default
Empty == <<"empty">>

\* the default the signature shows for field(default_factory=dict)
Factory == <<"factory">>

\* inspect.signature(cls).parameters: name -> default
Parameters(cls) ==
    IF cls = "ServerConfig"
    THEN [listen |-> Empty,
          certificate |-> Empty,
          private_key |-> Empty,
          users |-> Factory,
          congestion_control |-> PyStr(<<"bbr">>),
          log_level |-> PyStr(<<"info">>)]
    ELSE [server |-> Empty,
          listen |-> Empty,
          uuid |-> Empty,
          password |-> Empty,
          sni |-> PyNone,
          allow_insecure |-> PyBool(FALSE),
          congestion_control |-> PyStr(<<"bbr">>),
          log_level |-> PyStr(<<"info">>)]

\* the mutation that prepends the colon whatever the string starts with
NormalizeListen_always_prepend(listen) ==
    PyStr(<<":">> \o (IF listen[1] = "int" THEN Str(listen[2]) ELSE listen[2]))

\* ServerConfig.__post_init__ on listen: an int becomes its str, and a str
\* that does not start with ":" gets one
NormalizeListen(listen) ==
    LET s == IF listen[1] = "int" THEN Str(listen[2]) ELSE listen[2]
    IN IF Len(s) > 0 /\ s[1] = ":" THEN PyStr(s) ELSE PyStr(<<":">> \o s)

\* ServerConfig.__post_init__
ServerConfig_post_init(self) ==
    [self EXCEPT !.users = IF Truthy(self.users) THEN self.users
                           ELSE PyDict(<<>>),
                 !.listen = NormalizeListen(self.listen)]

\* the __init__ the dataclass decorator generates: a field left at the
\* factory marker is given default_factory(); then __post_init__
Construct(cls, kwargs) ==
    IF cls = "ServerConfig"
    THEN <<cls, ServerConfig_post_init(
                    [kwargs EXCEPT !.users = IF kwargs.users = Factory
                                             THEN PyDict(<<>>)
                                             ELSE kwargs.users])>>
    ELSE <<cls, kwargs>>

\* the mutation that takes the default of every parameter that has one
from_dict_to_cls_defaults_only(cls, data) ==
    LET params == Parameters(cls)
    IN Construct(cls, [key \in DOMAIN params |->
                          IF params[key] = Empty THEN data[key]
                          ELSE params[key]])

\* from_dict_to_cls(cls, data): a parameter without default is read with
\* data[key] (KeyError when it is missing), the others with data.get
from_dict_to_cls(cls, data) ==
    LET params == Parameters(cls)
        missing == {key \in DOMAIN params :
                       params[key] = Empty /\ key \notin DOMAIN data}
    IN IF missing # {} THEN <<"KeyError", missing>>
       ELSE Construct(cls, [key \in DOMAIN params |->
                               IF params[key] = Empty THEN data[key]
                               ELSE IF key \in DOMAIN data THEN data[key]
                               ELSE params[key]])

\* to_json of both classes: json.dumps(self.__dict__, ...)
to_json(self) == json_dumps(PyDict(self[2]))

\* NekoRayConfig.from_json: json.loads, then from_dict_to_cls(cls, data)
NekoRayConfig_from_json(text) ==
    from_dict_to_cls("NekoRayConfig", json_loads(text)[2])

\* the mutation that tests `self.sni is not None`
SniShown_unless_None(sni) == sni # PyNone

\* `if self.sni:`
SniShown(sni) == Truthy(sni)

\* NekoRayConfig.sharelink
sharelink(self) ==
    LET d == self[2]
        sl == <<"juicity://">> \o d.uuid[2] \o <<":">> \o d.password[2]
                 \o <<"@">> \o d.server[2]
                 \o <<"?congestion_control=">> \o d.congestion_control[2]
                 \o <<"&allow_insecure=">>
                 \o Str(IF d.allow_insecure[2] THEN 1 ELSE 0)
    IN IF SniShown(d.sni) THEN sl \o <<"&sni=">> \o d.sni[2] ELSE sl

(***************************************************************************)
(* One call of a function of the configuration classes.  The values the    *)
(* functions are applied to:                                               *)
(***************************************************************************)
\* the fields of NekoRayConfig, each over a few values of its declared type
NekoRayDicts ==
    [server : {PyStr(<<"203.0.113.7", ":", "41670">>)},
     listen : {PyStr(<<"127.0.0.1:%socks_port%">>)},
     uuid : {PyStr(<<"6f1d-uuid">>)},
     password : {PyStr(<<"0123456789abcdef">>),
                 PyStr(<<"\\", "\"", "U+00E9">>)},
     sni : {PyNone, PyStr(<<>>), PyStr(<<"example.com">>)},
     allow_insecure : {PyBool(FALSE), PyBool(TRUE)},
     congestion_control : {PyStr(<<"bbr">>), PyStr(<<"cubic">>),
                           PyStr(<<"new_reno">>)},
     log_level : {PyStr(<<"info">>), PyStr(<<"debug">>)}]

NekoRayConfigs == {<<"NekoRayConfig", d>> : d \in NekoRayDicts}

\* the ports given to ServerConfig: small and large ones, the ends of the
\* candidate range, and the -1 of an exhausted range
ListenPorts == {-1, 0, 80, 8443, PortLo, PortHi - 1, 65535}

\* listen given as the int p, as the str "p" and as the str ":p"
ListenForms == {"int", "str", "colon"}

ListenArg(p, form) ==
    CASE form = "int" -> PyInt(p)
      [] form = "str" -> PyStr(Str(p))
      [] form = "colon" -> PyStr(<<":">> \o Str(p))

\* the keyword arguments of ServerConfig(...), users given or left out
ServerKwargs(p, form) ==
    [listen : {ListenArg(p, form)},
     certificate : {PyStr(<<"/etc/letsencrypt/live/example.com/fullchain.pem">>)},
     private_key : {PyStr(<<"/etc/letsencrypt/live/example.com/privkey.pem">>)},
     users : {Factory,
              PyDict([u \in {"6f1d-uuid"} |-> PyStr(<<"0123456789abcdef">>)])},
     congestion_control : {PyStr(<<"bbr">>), PyStr(<<"cubic">>)},
     log_level : {PyStr(<<"info">>)}]

\* the ServerConfig values there are: what the constructor returns
ServerConfigs ==
    {Construct("ServerConfig", k) :
        k \in UNION {ServerKwargs(p, "int") : p \in ListenPorts}}

\* the parameters of cls that have a default
OptionalKeys(cls) ==
    {key \in DOMAIN Parameters(cls) : Parameters(cls)[key] # Empty}

\* JSON objects no to_json wrote: a stored NekoRayConfig from which any of
\* the optional members were deleted, with or without a member "remarks"
\* that the class does not know
ForeignTexts ==
    LET written == {to_json(x)[2] : x \in
                       {y \in NekoRayConfigs :
                            /\ y[2].password = PyStr(<<"0123456789abcdef">>)
                            /\ y[2].sni = PyStr(<<"example.com">>)
                            /\ y[2].allow_insecure = PyBool(TRUE)
                            /\ y[2].congestion_control = PyStr(<<"cubic">>)}}
        members(obj, drop, extra) ==
            [key \in (DOMAIN obj \ drop) \cup extra |->
                IF key \in DOMAIN obj THEN obj[key]
                ELSE <<"string", <<"added by hand">>>>]
    IN {<<"object", members(obj, drop, extra)>> :
           obj \in written,
           drop \in SUBSET OptionalKeys("NekoRayConfig"),
           extra \in {{}, {"remarks"}}}

\* <<function, argument>>
FnInputs ==
    {<<"to_json", x>> : x \in NekoRayConfigs \cup ServerConfigs}
        \cup {<<"from_json", <<"NekoRayConfig", t>>>> : t \in ForeignTexts}
        \cup {<<"ServerConfig", k>> :
                 k \in UNION {ServerKwargs(a.port, a.form) :
                                 a \in [port : ListenPorts, form : ListenForms]}}
        \cup {<<"sharelink", x>> : x \in NekoRayConfigs}

\* the workflow variables, which no function of the configuration classes
\* touches
scaffoldVars == <<hostVars, cmd, flags, exitKind, certBotVars, portVars,
                  certHist, user, statusText, attempts, pc, trace>>

InitFn ==
    /\ FreshHost
    /\ certbotInstalled
    /\ occupant80 = "none"
    /\ freePorts = SamplePorts
    /\ input \in FnInputs
    /\ result = NoValue

\* self.to_json(path): the text in the file
ToJson ==
    /\ input[1] = "to_json"
    /\ result = NoValue
    /\ result' = <<"text", to_json(input[2])>>
    /\ UNCHANGED <<scaffoldVars, input>>

\* the text to_json wrote, or a text given, is read back.  ServerConfig has
\* no from_json of its own: its text goes through json.loads and
\* from_dict_to_cls, the one deserializer of the module.
FromJson ==
    /\ \/ /\ input[1] = "to_json"
          /\ result[1] = "text"
          /\ result' = IF input[2][1] = "NekoRayConfig"
                       THEN NekoRayConfig_from_json(result[2])
                       ELSE from_dict_to_cls(input[2][1], json_loads(result[2])[2])
       \/ /\ input[1] = "from_json"
          /\ result = NoValue
          /\ result' = NekoRayConfig_from_json(input[2][2])
    /\ UNCHANGED <<scaffoldVars, input>>

\* ServerConfig(listen=..., certificate=..., private_key=..., ...)
NewServerConfig ==
    /\ input[1] = "ServerConfig"
    /\ result = NoValue
    /\ result' = Construct("ServerConfig", input[2])
    /\ UNCHANGED <<scaffoldVars, input>>

\* nekoray.sharelink
ShareLink ==
    /\ input[1] = "sharelink"
    /\ result = NoValue
    /\ result' = PyStr(sharelink(input[2]))
    /\ UNCHANGED <<scaffoldVars, input>>

NextFn ==
    \/ ToJson
    \/ FromJson
    \/ NewServerConfig
    \/ ShareLink

SpecFn == InitFn /\ [][NextFn]_vars

(***************************************************************************)
(* Properties                                                              *)
(***************************************************************************)
InTrace(e) == \E i \in DOMAIN trace : trace[i] = e

\* every occurrence of b in the trace comes after an occurrence of a
Precedes(a, b) ==
    \A j \in DOMAIN trace : trace[j] = b => \E i \in 1 .. (j - 1) : trace[i] = a

\* the run requested a certificate and certbot answered with the quota phrase
RateLimited ==
    /\ cmd = "install"
    /\ acmeOutput = "too many certificates: retry after 168 hours"

\* C1: an install run whose certificate request was answered with the quota
\* phrase ('168 hours') goes no further than the post-hook: it writes no
\* service unit and no server.json, issues no service start, and the only
\* statement left to it is the post-hook, which ends the process.
C1_RateLimitShortCircuit ==
    RateLimited =>
        /\ pc \in {"post_hook", "exited"}
        /\ certStage = "post" => (pc = "exited" /\ exitKind = "sys.exit")
        /\ ~InTrace("write_unit")
        /\ ~InTrace("write_server_json")
        /\ ~InTrace("systemctl_enable_now")

C1_Witness ==
    /\ RateLimited
    /\ certStage = "post"
    /\ pc = "exited"

\* C2: an install run whose status query after the start did not print
\* "active" writes no client configuration and prints no share-link.
C2_InstallFailureContainment ==
    (cmd = "install" /\ statusText \in {"inactive", "failed"}) =>
        /\ ~InTrace("write_client_json")
        /\ ~InTrace("print_sharelink")
        /\ pc = "exited"

C2_Witness ==
    /\ cmd = "install"
    /\ statusText = "failed"
    /\ InTrace("systemctl_enable_now")
    /\ exitKind = "return"

\* a remove run that passed the domain validation and ran to its end (the
\* shell reload)
RemoveCompleted ==
    /\ cmd = "remove"
    /\ domainResult = "ok"
    /\ pc = "exited"
    /\ exitKind = "execl"

\* C3: once remove has passed the domain validation and completed, the
\* workstation directory and the unit file do not exist and no
\* juicity-server process is left, whatever the state it started from.
C3_RemovalCompleteness ==
    RemoveCompleted =>
        /\ ~wsExists
        /\ ~unitFile
        /\ ~svcActive
        /\ ~exeExists /\ serverJson = {} /\ clientJson = {}

C3_Witness ==
    /\ RemoveCompleted
    /\ InTrace("rm_unit")
    /\ ~InTrace("makedirs_workstation")

\* C4: an install run started while the certificate exists at its canonical
\* path never enters CertBot.run: no pre-hook, no request, no post-hook.
C4_NoAcquireWhenCertExists ==
    (cmd = "install" /\ certAtStart) =>
        /\ certStage = "none"
        /\ pc \notin {"pre_hook", "cert_run", "post_hook"}
        /\ ~InTrace("apt_install_certbot")
        /\ ~InTrace("kill_port_80")
        /\ ~InTrace("certbot_certonly")
        /\ ~InTrace("restart_nginx")
        /\ ~InTrace("enable_certbot_timer")

C4_Witness ==
    /\ cmd = "install"
    /\ certAtStart
    /\ pc = "exited"
    /\ exitKind = "execl"

\* C5 (as claimed): when the allocator found every candidate port bound, the
\* install run ends there: no unit file, no download, no server.json, no
\* service start.
C5_PortExhaustionFatal ==
    (cmd = "install" /\ exhausted) =>
        /\ ~InTrace("write_unit")
        /\ ~InTrace("download")
        /\ ~InTrace("write_server_json")
        /\ ~InTrace("systemctl_enable_now")

\* C6 (as claimed): every value the allocator returned lies in
\* [41670, 46990) and is a port whose probe bind succeeded.
C6_ReturnedPortFreeAndInRange ==
    \A p \in returned : p >= PortLo /\ p < PortHi /\ p \in probed

\* a failed validation of the domain, in install or in remove
DomainRejected ==
    /\ cmd \in {"install", "remove"}
    /\ domainResult \in {"unresolvable", "mismatch"}

\* C7: when the domain does not resolve or resolves to another address than
\* the host's public IP, install and remove exit at once: the run has
\* issued no command and written no file.
C7_DomainValidationHardStop ==
    DomainRejected =>
        /\ pc = "exited"
        /\ exitKind = "sys.exit"
        /\ trace = <<>>

C7_Witness ==
    /\ DomainRejected
    /\ domainResult = "mismatch"
    /\ cmd = "remove"
    /\ wsExists

\* C8: in a remove run the workstation tree is deleted only after the unit
\* was disabled and stopped and after the kill by executable name.
C8_RemovalOrdering ==
    cmd = "remove" =>
        /\ Precedes("systemctl_disable_now", "rmtree_workstation")
        /\ Precedes("pkill", "rmtree_workstation")

C8_Witness ==
    /\ cmd = "remove"
    /\ InTrace("rmtree_workstation")

\* C9 (as claimed): when the pre-hook stopped the occupant of port 80, that
\* occupant listens on port 80 again once the post-hook has run.
C9_Port80Revival ==
    (certStage = "post" /\ stopped80 # "none") => occupant80 = stopped80

\* C10 (as claimed): an acquisition that reached the post-hook has enabled
\* the renewal timer, whatever the request's outcome.
C10_TimerAlwaysEnabled ==
    certStage = "post" => InTrace("enable_certbot_timer")

\* C10 (amended): an acquisition that reached the post-hook has enabled the
\* renewal timer exactly when certbot's output lacked the quota phrase; with
\* the quota phrase the post-hook exits before it enables the timer.
C10_TimerEnabledUnlessRateLimited ==
    certStage = "post" =>
        (InTrace("enable_certbot_timer") <=> ~RateLimited)

C10_Witness ==
    /\ certStage = "post"
    /\ acmeOutput = "error"
    /\ InTrace("enable_certbot_timer")

\* the number of occurrences of e in the trace
Count(e) == Cardinality({i \in DOMAIN trace : trace[i] = e})

\* the download attempts of the run: each ends in success or in an OSError
DownloadAttempts == Count("download") + Count("download_failed")

\* C11 (as claimed): an install run makes at most two download attempts, a
\* second OSError is not retried, and every retry comes after a service stop.
C11_SingleDownloadRetry ==
    cmd = "install" =>
        /\ DownloadAttempts <= 2
        /\ (Count("download_failed") = 2 => pc # "download")
        /\ Count("systemctl_stop") = Count("download_failed")

\* the flags name another format than NekoRay and not NekoRay
OtherFormatOnly(params) ==
    /\ ~params.nekoray
    /\ params.clash \/ params.v2ray \/ params.singbox

\* C12 (as claimed): once install or check has parsed its format flags, with
\* a flag for another format and without --nekoray the run has logged the
\* 'unimplemented' warning and has printed neither share-link nor
\* configuration.
C12_OutputFormatFlags ==
    \A params \in flags :
        OtherFormatOnly(params) =>
            /\ InTrace("warn_unimplemented")
            /\ ~InTrace("print_sharelink")
            /\ ~InTrace("print_nekoray_config")

\* C13 (as claimed): a check invocation creates nothing: the workstation
\* directory that is absent when check starts is absent throughout the run,
\* and the run writes neither the unit file nor a configuration file.
C13_CheckIsReadOnly ==
    cmd = "check" =>
        /\ ~InTrace("makedirs_workstation")
        /\ ~InTrace("write_unit")
        /\ ~InTrace("write_server_json")
        /\ ~InTrace("write_client_json")

\* the port after the colon of a stored listen value
ListenPort(c) == c.listen[2]

\* C14 (as claimed): an install that finds a server.json (no remove since
\* the install that wrote it) persists the port that server.json held.
C14_PortStability ==
    [][\A old \in serverJson : \A new \in serverJson' :
          ListenPort(new) = ListenPort(old)]_vars

\* C14 (amended): the port is chosen once per install process.  The port an
\* install run has persisted in server.json is a value Project.server_port
\* returned in that run, and when it is a real port (not the -1 of an
\* exhausted range) it is the only value the property returned in that run.
C14_PortChosenOncePerRun ==
    (cmd = "install" /\ InTrace("write_server_json")) =>
        \A c \in serverJson :
            /\ ListenPort(c) \in returned
            /\ ListenPort(c) >= 0 => returned = {ListenPort(c)}

\* a later install has persisted a port while the service, started by an
\* earlier install and never removed, still listens on another
C14_Witness ==
    /\ cmd = "install"
    /\ pc = "exited"
    /\ InTrace("write_server_json")
    /\ InTrace("write_client_json")
    /\ svcActive
    /\ \E c \in serverJson : ListenPort(c) >= 0 /\ ListenPort(c) \notin ServicePorts

\* what install asked of the outside world in this run was granted: the
\* domain resolved to this host, certbot was there to run and issued the
\* certificate when one was requested, and systemd did not report the unit
\* inactive or failed
CapabilitiesSucceeded ==
    /\ domainResult = "ok"
    /\ acmeOutput \in {"none", "issued"}
    /\ certStage = "pre" => certbotInstalled
    /\ statusText \notin {"inactive", "failed"}

\* C15: an interrupted install ends with exit status 0 and no traceback; and
\* an install that ends uninterrupted with its external capabilities granted,
\* whatever an earlier (interrupted) run left on the host, has passed the
\* status check with the service active, has written the client
\* configuration and has handed over to the login shell.
C15_InterruptTolerance ==
    (cmd = "install" /\ pc = "exited") =>
        /\ exitKind = "interrupt" => ExitStatuses(exitKind) = {0}
        /\ (exitKind # "interrupt" /\ CapabilitiesSucceeded) =>
              /\ exitKind = "execl"
              /\ statusText = "active"
              /\ svcActive
              /\ InTrace("write_client_json")
              /\ clientJson # {}

\* the install found a certificate but no workstation, which only an install
\* interrupted between the two leaves behind, and ran to its end
C15_Witness ==
    /\ cmd = "install"
    /\ certAtStart
    /\ InTrace("makedirs_workstation")
    /\ pc = "exited"
    /\ exitKind = "execl"
    /\ InTrace("write_client_json")

\* the run met one of the failures the specification calls fatal
FatalFailure ==
    \/ DomainRejected
    \/ RateLimited /\ certStage = "post"
    \/ cmd = "install" /\ exhausted

\* C16 (as claimed): a process that met a fatal failure and was not
\* interrupted ends with a non-zero exit status and has written no client
\* configuration.
C16_FatalExitStatus ==
    (pc = "exited" /\ exitKind # "interrupt" /\ FatalFailure) =>
        /\ 0 \notin ExitStatuses(exitKind)
        /\ ~InTrace("write_client_json")

\* the client configuration cc was derived from the server configuration sc
DerivedFrom(cc, sc) ==
    /\ cc.uuid \in DOMAIN sc.users
    /\ sc.users[cc.uuid] = cc.password
    /\ cc.server[2] = ListenPort(sc)
    /\ cc.congestion_control = sc.congestion_control

\* C20 (as claimed): whenever no invocation is running and both server.json
\* and the client configuration exist, the client's uuid and password are an
\* entry of the server's users, the client's server port is the port of the
\* server's listen, and the congestion controls are equal.
C20_ClientServerConsistency ==
    pc = "idle" =>
        \A sc \in serverJson : \A cc \in clientJson : DerivedFrom(cc, sc)

\* C17: a NekoRayConfig or ServerConfig read back from the text to_json
\* wrote for it equals it in every field; and from_json of a JSON object
\* yields exactly the declared fields, each with the value of the member of
\* that name, or with the declared default where the object has no such
\* member; members the class does not declare are ignored.
C17_ConfigRoundTrip ==
    /\ (input[1] = "to_json" /\ result[1] \notin {"none", "text"}) =>
          result = input[2]
    /\ (input[1] = "from_json" /\ result # NoValue) =>
          LET cls == input[2][1]
              obj == input[2][2][2]
              params == Parameters(cls)
          IN /\ result[1] = cls
             /\ DOMAIN result[2] = DOMAIN params
             /\ \A key \in DOMAIN params :
                   result[2][key] = IF key \in DOMAIN obj
                                    THEN json_loads(obj[key])
                                    ELSE params[key]

\* a configuration whose sni is None and whose password holds characters
\* that JSON escapes has made the round trip
C17_Witness ==
    /\ input[1] = "to_json"
    /\ result[1] = "NekoRayConfig"
    /\ input[2][2].sni = PyNone
    /\ input[2][2].password = PyStr(<<"\\", "\"", "U+00E9">>)

\* the port of the call followed, when the call is ServerConfig(listen=...)
\* with listen in one of the three forms
GivenPorts ==
    {p \in ListenPorts :
        \E form \in ListenForms : input[2].listen = ListenArg(p, form)}

\* C18: ServerConfig constructed with listen given as the int p, the str
\* "p" or the str ":p" has listen == ":p", one colon followed by the decimal
\* digits of p.
C18_ListenNormalization ==
    (input[1] = "ServerConfig" /\ result # NoValue) =>
        /\ GivenPorts # {}
        /\ \A p \in GivenPorts : result[2].listen = PyStr(<<":">> \o Str(p))

\* listen was given with its colon
C18_Witness ==
    /\ input[1] = "ServerConfig"
    /\ result # NoValue
    /\ input[2].listen = PyStr(<<":", "8", "4", "4", "3">>)

\* C19: the share-link of a NekoRayConfig is
\* juicity://<uuid>:<password>@<server>?congestion_control=<cc>
\* &allow_insecure=<0|1>, with 1 exactly for allow_insecure true, followed
\* by &sni=<sni> exactly when sni is a non-empty str.
C19_ShareLinkConstruction ==
    (input[1] = "sharelink" /\ result # NoValue) =>
        LET d == input[2][2]
            base == <<"juicity://">> \o d.uuid[2] \o <<":">> \o d.password[2]
                       \o <<"@">> \o d.server[2]
                       \o <<"?congestion_control=">> \o d.congestion_control[2]
                       \o <<"&allow_insecure=",
                            IF d.allow_insecure = PyBool(TRUE) THEN "1" ELSE "0">>
        IN result = PyStr(IF d.sni = PyNone \/ d.sni = PyStr(<<>>)
                          THEN base
                          ELSE base \o <<"&sni=">> \o d.sni[2])

\* the share-link of a configuration whose sni is the empty string
C19_Witness ==
    /\ input[1] = "sharelink"
    /\ result # NoValue
    /\ input[2][2].sni = PyStr(<<>>)
    /\ input[2][2].allow_insecure = PyBool(TRUE)

\* C21 (as claimed): an install run that has seen the unit active and has
\* written the client configuration finds the running service on the
\* server.json this run wrote: the unit was started or restarted after the
\* write.
C21_ServiceRunsWrittenConfig ==
    (cmd = "install" /\ statusText = "active" /\ InTrace("write_client_json")) =>
        /\ svcActive
        /\ svcCfg = serverJson

\* C22 (as claimed): an install run that has written server.json or issued
\* the service start has a certificate at the canonical path; a request
\* that certbot answered with an error other than the quota phrase lets the
\* run write and start nothing.
C22_NoStartWithoutCertificate ==
    cmd = "install" =>
        /\ (InTrace("write_server_json") \/ InTrace("systemctl_enable_now"))
              => certExists
        /\ acmeOutput = "error" =>
              (~InTrace("write_server_json") /\ ~InTrace("systemctl_enable_now"))

====
